---- MODULE Spec2Model ----
(***************************************************************************)
(* shardpack: Bucket / BucketIndex / ShardWriter / StorageProvider.        *)
(*                                                                         *)
(* Five specifications share the variables below.                          *)
(*   Spec        one caller, every handler of Bucket run to completion,    *)
(*               starting from Bucket::new over a backend directory that   *)
(*               may already hold (empty) shard objects.                   *)
(*   SpecLoaded  the same handlers started from a bucket whose index is    *)
(*               already populated.  No code path of src/ populates the    *)
(*               index (Bucket::write never inserts, process_shard is a    *)
(*               stub), so these states are inputs of read/delete rather   *)
(*               than states reached from Bucket::new.                     *)
(*   SpecConc    two tasks running the handlers step by step, one step per *)
(*               await point, under the tokio RwLock of the index.         *)
(*   SpecWriter  one ShardWriter, created by ShardWriter::new, receiving   *)
(*               write calls.                                              *)
(*   SpecBuild   BucketIndex::build step by step: the futures of the       *)
(*               buffered stream interleave at their await points.         *)
(*               SpecBuildFair adds the fairness that makes every provider *)
(*               call return.                                              *)
(***************************************************************************)
EXTENDS Integers, Sequences, FiniteSets, TLC

VARIABLES
    compression,      \* Bucket.config.compression
    overflow_checks,  \* build profile: TRUE = arithmetic overflow panics
    shards,           \* Bucket.shards
    entries,          \* Bucket.index.entries   (function, DOMAIN = keys present)
    metadata,         \* Bucket.index.metadata  (function, DOMAIN = keys present)
    store,            \* backend objects of the provider (function, DOMAIN = paths present)
    built,            \* value returned by the last BucketIndex::build
    last,             \* history: the last completed call and its result (one caller)
    written,          \* history: per key, data of the successful writes since the last delete
    pristine,         \* history: the backend objects at construction
    lock,             \* Bucket.index RwLock: exclusive holder and shared holders
    pc,               \* per task: position in its handler
    loc,              \* per task: locals of its handler
    writer,           \* ShardWriter: current_size and entries
    bld               \* BucketIndex::build in progress: stream, futures, mutex, accumulator

vars == <<compression, overflow_checks, shards, entries, metadata, store, built,
          last, written, pristine, lock, pc, loc, writer, bld>>

unitVars == <<writer, bld>>

seqVars  == <<unitVars, compression, overflow_checks, shards, entries, metadata, store, built,
              last, written, pristine>>
seqVarsButLast == <<unitVars, compression, overflow_checks, shards, entries, metadata, store, built,
                    written, pristine>>
concVars == <<lock, pc, loc>>

(***************************************************************************)
(* Bounds                                                                  *)
(***************************************************************************)
UsizeBits == 16          \* modelled width of usize
MaxShards == 2           \* writes are issued while Len(shards) < MaxShards
MaxWrites == 2           \* successful writes recorded at a time, over all keys
MaxLoaded == 2           \* entries per key in a populated index

Keys  == {"a", "b"}
Datas == {<<1>>, <<1, 2>>, <<1, 1, 1, 1>>}
Metas == {<<5>>}
Tasks == {1, 2}

name == "bkt"            \* Bucket.name

(***************************************************************************)
(* Results                                                                 *)
(***************************************************************************)
Ok(v)  == [kind |-> "Ok", val |-> v]
Err(k) == [kind |-> k, val |-> <<>>]
IsErr(r) == r.kind \notin {"Ok", "Some", "None"}

\* Option<Vec<u8>> as a sequence of at most one element
None    == <<>>
Some(m) == <<m>>

(***************************************************************************)
(* usize arithmetic (Rust): a subtraction below zero panics when overflow  *)
(* checks are compiled in and wraps modulo 2^UsizeBits otherwise.          *)
(***************************************************************************)
UsizeModulus == 2 ^ UsizeBits

usize_sub(a, b) ==
    IF a >= b THEN [panic |-> FALSE, val |-> a - b]
    ELSE IF overflow_checks THEN [panic |-> TRUE, val |-> 0]
    ELSE [panic |-> FALSE, val |-> (a - b) % UsizeModulus]

(***************************************************************************)
(* checksum.rs.  SHA-256 is taken as collision-free: the digest of d is a  *)
(* value that determines d.                                                *)
(***************************************************************************)
compute_checksum(data) == <<"sha256", data>>

\* the comparison left out
verify_checksum_skipped(data, expected) == Ok(data)

verify_checksum(data, expected) ==
    IF compute_checksum(data) = expected THEN Ok(data) ELSE Err("ChecksumMismatch")

(***************************************************************************)
(* Compression codecs (bucket.rs 30-57).                                   *)
(* gzip member: magic byte, one header byte the decoder does not inspect   *)
(* (MTIME/XFL/OS of RFC 1952), the payload, and the ISIZE trailer.         *)
(* lz4 block: either a literal block or, for a run of RunMin or more equal *)
(* bytes, a match block <<token, byte, length>>.                           *)
(***************************************************************************)
GZ_MAGIC == 31
GZ_OS    == 255
LZ_LIT   == 16
LZ_RUN   == 17
RunMin   == 4

Supported == {"None", "Gzip", "Lz4"}
CompressionTypes == {"None", "Gzip", "Lz4", "Zstd", "Snappy"}

compress_gzip(data) == <<GZ_MAGIC, GZ_OS>> \o data \o <<Len(data)>>

decompress_gzip(data) ==
    IF /\ Len(data) >= 3
       /\ data[1] = GZ_MAGIC
       /\ data[Len(data)] = Len(data) - 3
    THEN Ok(SubSeq(data, 3, Len(data) - 1))
    ELSE Err("Io")

IsRun(data) == Len(data) >= RunMin /\ \A i \in 1..Len(data) : data[i] = data[1]

compress_lz4(data) ==
    IF IsRun(data) THEN <<LZ_RUN, data[1], Len(data)>> ELSE <<LZ_LIT>> \o data

lz4_block_decode(data) ==
    IF Len(data) >= 1 /\ data[1] = LZ_LIT THEN Ok(Tail(data))
    ELSE IF Len(data) = 3 /\ data[1] = LZ_RUN /\ data[3] >= RunMin
         THEN Ok([i \in 1..data[3] |-> data[2]])
    ELSE Err("Lz4")

\* lz4_flex::block::decompress(data, data.len() * 3): the output may not be
\* longer than three times the input
decompress_lz4(data) ==
    LET r == lz4_block_decode(data)
    IN  IF r.kind = "Ok" /\ Len(r.val) > Len(data) * 3 THEN Err("Lz4") ELSE r

\* the match of Bucket::write (bucket.rs 133-138)
Compress(comp, data) ==
    CASE comp = "None" -> Ok(data)
      [] comp = "Gzip" -> Ok(compress_gzip(data))
      [] comp = "Lz4"  -> Ok(compress_lz4(data))
      [] OTHER         -> Err("UnsupportedCompression")

\* the match of Bucket::read (bucket.rs 159-164)
Decompress(comp, chunk) ==
    CASE comp = "None" -> Ok(chunk)
      [] comp = "Gzip" -> decompress_gzip(chunk)
      [] comp = "Lz4"  -> decompress_lz4(chunk)
      [] OTHER         -> Err("UnsupportedCompression")

(***************************************************************************)
(* LocalStorageProvider (storage.rs).  fail = the call meets an I/O error. *)
(***************************************************************************)
get_shard_path(shard_id) == <<name, shard_id>>

Call(fn, path) == [fn |-> fn, path |-> path]

provider_read(st, path, fail) ==
    IF fail \/ path \notin DOMAIN st THEN Err("Io") ELSE Ok(st[path])

\* fs::write replaces the whole object
provider_write(st, path, data, fail) ==
    IF fail THEN [res |-> Err("Io"), store |-> st]
    ELSE [res |-> Ok(<<>>),
          store |-> [q \in DOMAIN st \cup {path} |-> IF q = path THEN data ELSE st[q]]]

\* fs::remove_file fails on a missing file
provider_delete(st, path, fail) ==
    IF fail \/ path \notin DOMAIN st THEN [res |-> Err("Io"), store |-> st]
    ELSE [res |-> Ok(<<>>), store |-> [q \in DOMAIN st \ {path} |-> st[q]]]

\* the objects under the bucket's prefix (the order of a directory listing
\* is not modelled: process_shard ignores what it is given)
provider_list(st, prefix, fail) ==
    IF fail THEN [res |-> Err("Io"), files |-> {}]
    ELSE [res |-> Ok(<<>>), files |-> {q \in DOMAIN st : q[1] = prefix}]

(***************************************************************************)
(* index/bucket.rs, shard/shard.rs                                         *)
(***************************************************************************)
IndexEntry(shard_id, offset, size, checksum) ==
    [shard_id |-> shard_id, offset |-> offset, size |-> size, checksum |-> checksum]

\* BucketIndex::default(): both maps empty
EmptyMap == [k \in {} |-> <<>>]
BucketIndex_default == [entries |-> EmptyMap, metadata |-> EmptyMap]

\* Shard::new(): a default writer (current_size 0, no entries)
Shard_new == [current_size |-> 0, entries |-> <<>>]

MapRemove(m, k) == [q \in DOMAIN m \ {k} |-> m[q]]

(***************************************************************************)
(* Bucket::write (bucket.rs 93-147), in the three stretches between its    *)
(* provider calls.                                                         *)
(***************************************************************************)
\* shard::config::shard_size(): the maximum shard size (256 MiB in the
\* program, scaled down here)
shard_size == 3

\* lines 95-104: push shard 0 on an empty list, then index the last shard
\* with the length taken BEFORE the push
WriteBegin(sh) ==
    LET current_shards == Len(sh)
        sh1  == IF current_shards = 0 THEN Append(sh, Shard_new) ELSE sh
        last_shard_idx == usize_sub(current_shards, 1)
    IN  [shards |-> sh1,
         current_shards |-> current_shards,
         panic  |-> last_shard_idx.panic,
         last_shard_idx |-> last_shard_idx.val,
         last_shard_path |-> get_shard_path(last_shard_idx.val)]

\* lines 110-138: placement, index entry (built and dropped), compression
WritePlan(sh1, current_shards, last_shard_idx, file, data, comp) ==
    LET current_size    == Len(file)
        available_space == usize_sub(shard_size, current_size)
        roll     == available_space.val < Len(data)
        sh2      == IF roll THEN Append(sh1, Shard_new) ELSE sh1
        shard_id == IF roll THEN current_shards ELSE last_shard_idx
        offset   == IF roll THEN 0 ELSE current_size
        index_entry == IndexEntry(shard_id, offset, Len(data), compute_checksum(data))
        compressed_data == Compress(comp, data)
    IN  IF available_space.panic
        THEN [shards |-> sh1, res |-> Err("Panic"), entry |-> index_entry, bytes |-> <<>>]
        ELSE [shards |-> sh2,
              res    |-> IF IsErr(compressed_data) THEN compressed_data ELSE Ok(<<>>),
              entry  |-> index_entry,
              bytes  |-> compressed_data.val]

\* the whole handler; fault = n: the n-th provider call of this handler fails
\* (0: none does).  The index is not touched: lines 143-145 are commented out
\* and index_entry is never inserted.
BucketWrite(sh, st, data, comp, fault) ==
    LET b == WriteBegin(sh)
        c1 == <<Call("read", b.last_shard_path)>>
        file == provider_read(st, b.last_shard_path, fault = 1)
        p == WritePlan(b.shards, b.current_shards, b.last_shard_idx, file.val, data, comp)
        c2 == Append(c1, Call("write", b.last_shard_path))
        w == provider_write(st, b.last_shard_path, p.bytes, fault = 2)
    IN  IF b.panic THEN [shards |-> b.shards, store |-> st, res |-> Err("Panic"), calls |-> <<>>]
        ELSE IF IsErr(file) THEN [shards |-> b.shards, store |-> st, res |-> file, calls |-> c1]
        ELSE IF IsErr(p.res) THEN [shards |-> p.shards, store |-> st, res |-> p.res, calls |-> c1]
        ELSE [shards |-> p.shards, store |-> w.store, res |-> w.res, calls |-> c2]

(***************************************************************************)
(* Bucket::read (bucket.rs 149-171)                                        *)
(***************************************************************************)
\* one iteration of the loop, lines 156-166
ReadEntry(st, comp, entry, fail) ==
    LET chunk == provider_read(st, get_shard_path(entry.shard_id), fail)
        decompressed == Decompress(comp, chunk.val)
    IN  IF IsErr(chunk) THEN chunk
        ELSE IF IsErr(decompressed) THEN decompressed
        ELSE verify_checksum(decompressed.val, entry.checksum)

RECURSIVE ReadLoop(_, _, _, _, _, _, _)
ReadLoop(es, i, data, calls, st, comp, fault) ==
    IF i > Len(es) THEN [res |-> Ok(data), calls |-> calls]
    ELSE LET r  == ReadEntry(st, comp, es[i], fault = i)
             cs == Append(calls, Call("read", get_shard_path(es[i].shard_id)))
         IN  IF IsErr(r) THEN [res |-> r, calls |-> cs]
             ELSE ReadLoop(es, i + 1, data \o r.val, cs, st, comp, fault)

\* a missing key taken for a key without entries
ReadLookup_or_default(ents, key) ==
    IF key \in DOMAIN ents THEN Ok(ents[key]) ELSE Ok(<<>>)

\* lines 151-152: the lookup of the key
ReadLookup(ents, key) ==
    IF key \in DOMAIN ents THEN Ok(ents[key]) ELSE Err("KeyNotFound")

BucketRead(ents, st, key, comp, fault) ==
    LET found == ReadLookup(ents, key)
    IN  IF IsErr(found) THEN [res |-> found, calls |-> <<>>]
        ELSE ReadLoop(found.val, 1, <<>>, <<>>, st, comp, fault)

(***************************************************************************)
(* Bucket::delete (bucket.rs 173-185)                                      *)
(***************************************************************************)
RECURSIVE DeleteLoop(_, _, _, _, _)
DeleteLoop(es, i, calls, st, fault) ==
    IF i > Len(es) THEN [res |-> Ok(<<>>), store |-> st, calls |-> calls]
    ELSE LET d  == provider_delete(st, get_shard_path(es[i].shard_id), fault = i)
             cs == Append(calls, Call("delete", get_shard_path(es[i].shard_id)))
         IN  IF IsErr(d.res) THEN [res |-> d.res, store |-> st, calls |-> cs]
             ELSE DeleteLoop(es, i + 1, cs, d.store, fault)

\* line 183, reached only when no provider delete failed
DeleteFinish(meta, key) == MapRemove(meta, key)

BucketDelete(ents, meta, st, key, fault) ==
    LET removed == IF key \in DOMAIN ents THEN ents[key] ELSE <<>>
        ents1   == MapRemove(ents, key)
        l       == DeleteLoop(removed, 1, <<>>, st, fault)
    IN  [entries  |-> ents1,
         metadata |-> IF IsErr(l.res) THEN meta ELSE DeleteFinish(meta, key),
         store    |-> l.store,
         res      |-> l.res,
         calls    |-> l.calls]

(***************************************************************************)
(* Bucket::get_metadata (bucket.rs 187-190)                                *)
(***************************************************************************)
BucketGetMetadata(meta, key) ==
    IF key \in DOMAIN meta THEN [kind |-> "Some", val |-> meta[key]]
    ELSE [kind |-> "None", val |-> <<>>]

(***************************************************************************)
(* BucketIndex::build (index/bucket.rs 85-117) run to completion with      *)
(* parallelism >= 1.  Every listed file is read; process_shard (129-133)   *)
(* returns Ok without looking at the data or touching the index.           *)
(***************************************************************************)
process_shard(index, data) == [res |-> Ok(<<>>), index |-> index]

\* the stream of line 93-106; fault = 1 fails the list call, fault = n + 1
\* the read of the n-th file
RECURSIVE BuildLoop(_, _, _, _, _, _)
BuildLoop(files, index, calls, st, fault, n) ==
    IF files = {} THEN [res |-> Ok(<<>>), index |-> index, calls |-> calls]
    ELSE LET file == CHOOSE q \in files : TRUE
             data == provider_read(st, file, fault = n + 1)
             done == process_shard(index, data.val)
             rest == BuildLoop(files \ {file},
                               IF IsErr(data) THEN index ELSE done.index,
                               Append(calls, Call("read", file)), st, fault, n + 1)
         IN  [res   |-> IF IsErr(data) THEN data
                        ELSE IF IsErr(done.res) THEN done.res ELSE rest.res,
              index |-> rest.index,
              calls |-> rest.calls]

IndexBuild(st, fault) ==
    LET l == provider_list(st, name, fault = 1)
        calls == <<Call("list", <<name>>)>>
        r == BuildLoop(l.files, BucketIndex_default, calls, st, fault, 1)
    IN  IF IsErr(l.res) THEN [res |-> l.res, index |-> BucketIndex_default, calls |-> calls]
        ELSE IF IsErr(r.res) THEN [res |-> r.res, index |-> BucketIndex_default, calls |-> r.calls]
        ELSE r

(***************************************************************************)
(* ShardWriter (shard/writer.rs)                                           *)
(***************************************************************************)
\* PathBuf::from(self.id.to_string()), line 109
writer_path == <<"id">>

\* ShardWriter::new, lines 60-67
ShardWriter_new == [current_size |-> 0, entries |-> <<>>]

\* the metadata left out of the record length
data_len_without_metadata(data, meta) == Len(data)

\* lines 87-90
data_len(data, meta) == Len(data) + (IF meta # None THEN Len(meta[1]) ELSE 0)

\* a record that exactly fills the shard is refused
exceeds_shard_at_fill(current_size, len) == current_size + len >= shard_size

\* line 92
exceeds_shard(current_size, len) == current_size + len > shard_size

\* lines 110-119: the `?` of each provider write returns before the push
sw_commit(w, entry, len, res) ==
    IF IsErr(res) THEN w
    ELSE [current_size |-> w.current_size + len, entries |-> Append(w.entries, entry)]

\* ShardWriter::write, lines 86-122; fault = n: the n-th provider write fails
ShardWriterWrite(w, st, data, meta, fault) ==
    LET len    == data_len(data, meta)
        offset == w.current_size
        entry  == IndexEntry(Len(w.entries), offset, len, compute_checksum(data))
        w1     == provider_write(st, writer_path, data, fault = 1)
        c1     == <<Call("write", writer_path)>>
        w2     == IF meta # None
                  THEN provider_write(w1.store, writer_path, meta[1], fault = 2)
                  ELSE w1
        c2     == IF meta # None THEN Append(c1, Call("write", writer_path)) ELSE c1
    IN  IF exceeds_shard(w.current_size, len)
        THEN [writer |-> w, store |-> st, res |-> Err("ShardSizeLimitExceeded"),
              calls |-> <<>>]
        ELSE IF IsErr(w1.res)
        THEN [writer |-> sw_commit(w, entry, len, w1.res), store |-> st, res |-> w1.res,
              calls |-> c1]
        ELSE [writer |-> sw_commit(w, entry, len, w2.res), store |-> w2.store,
              res |-> w2.res, calls |-> c2]

\* BucketIndex::build before its first step
\*   files   the Vec returned by provider.list (its order is the directory's)
\*   fut     per file, the position of its future: "new" (not yet pulled from
\*           the stream), "read" (awaiting provider.read), "lock" (awaiting
\*           index.lock()), "merge" (holding the guard), "done"
\*   out     the outputs of the completed futures, in completion order
\*   mutex   the file whose future holds the Mutex of the accumulator, or None
\*   reads, merges   history: provider.read and process_shard calls per file
BldIdle == [pc |-> "idle", parallelism |-> 0, list |-> Ok(<<>>), files |-> {},
            fut |-> EmptyMap, data |-> EmptyMap, out |-> <<>>, mutex |-> None,
            index |-> BucketIndex_default, reads |-> EmptyMap, merges |-> EmptyMap]

InitUnit ==
    /\ writer = ShardWriter_new
    /\ bld    = BldIdle

(***************************************************************************)
(* Initial states                                                          *)
(***************************************************************************)
Faults == 0..2

UsizeMax == UsizeModulus - 1

\* shard objects that may exist in the bucket's directory before Bucket::new
InitLayouts == {{}, {get_shard_path(0)}, {get_shard_path(0), get_shard_path(1)},
                {get_shard_path(UsizeMax)}}
InitStores == {[q \in S |-> <<>>] : S \in InitLayouts}

NoCall == [op |-> "new", key |-> "", meta |-> None, res |-> Ok(<<>>), calls |-> <<>>]

RECURSIVE SumLen(_, _)
SumLen(f, S) ==
    IF S = {} THEN 0
    ELSE LET k == CHOOSE q \in S : TRUE IN Len(f[k]) + SumLen(f, S \ {k})

LocIdle == [op |-> "none", key |-> "", data |-> <<>>, meta |-> None, path |-> <<>>,
            idx |-> 0, cur |-> 0, es |-> <<>>, i |-> 0, buf |-> <<>>]

InitConc ==
    /\ lock = [writer |-> 0, readers |-> {}]
    /\ pc   = [t \in Tasks |-> "idle"]
    /\ loc  = [t \in Tasks |-> LocIdle]

\* Bucket::new (bucket.rs 83-91)
Init ==
    /\ compression \in CompressionTypes
    /\ overflow_checks \in BOOLEAN
    /\ shards   = <<>>
    /\ entries  = BucketIndex_default.entries
    /\ metadata = BucketIndex_default.metadata
    /\ store \in InitStores
    /\ pristine = store
    /\ built    = BucketIndex_default
    /\ last     = NoCall
    /\ written  = [k \in Keys |-> <<>>]
    /\ InitConc
    /\ InitUnit

(***************************************************************************)
(* One caller: each handler runs to completion                             *)
(***************************************************************************)
Write(key, data, meta, fault) ==
    /\ Len(shards) < MaxShards
    /\ SumLen(written, Keys) < MaxWrites
    /\ LET w == BucketWrite(shards, store, data, compression, fault)
       IN  /\ shards' = w.shards
           /\ store'  = w.store
           /\ last'   = [op |-> "write", key |-> key, meta |-> meta,
                         res |-> w.res, calls |-> w.calls]
           /\ written' = IF IsErr(w.res) THEN written
                         ELSE [written EXCEPT ![key] = Append(@, data)]
    /\ UNCHANGED <<unitVars, compression, overflow_checks, entries, metadata, built, pristine>>
    /\ UNCHANGED concVars

\* a read that drops the entries of a key it failed to read back
Read_dropping_unreadable(key, fault) ==
    /\ LET r == BucketRead(entries, store, key, compression, fault)
       IN  /\ last' = [op |-> "read", key |-> key, meta |-> None,
                       res |-> r.res, calls |-> r.calls]
           /\ entries' = IF IsErr(r.res) THEN MapRemove(entries, key) ELSE entries
    /\ UNCHANGED <<unitVars, compression, overflow_checks, shards, metadata, store,
                   built, written, pristine>>
    /\ UNCHANGED concVars

Read(key, fault) ==
    /\ LET r == BucketRead(entries, store, key, compression, fault)
       IN  last' = [op |-> "read", key |-> key, meta |-> None,
                    res |-> r.res, calls |-> r.calls]
    /\ UNCHANGED <<unitVars, compression, overflow_checks, shards, entries, metadata, store,
                   built, written, pristine>>
    /\ UNCHANGED concVars

Delete(key, fault) ==
    /\ LET d == BucketDelete(entries, metadata, store, key, fault)
       IN  /\ entries'  = d.entries
           /\ metadata' = d.metadata
           /\ store'    = d.store
           /\ last'     = [op |-> "delete", key |-> key, meta |-> None,
                           res |-> d.res, calls |-> d.calls]
    /\ written'  = [written EXCEPT ![key] = <<>>]
    /\ UNCHANGED <<unitVars, compression, overflow_checks, shards, built, pristine>>
    /\ UNCHANGED concVars

GetMetadata(key) ==
    /\ last' = [op |-> "get_metadata", key |-> key, meta |-> None,
                res |-> BucketGetMetadata(metadata, key), calls |-> <<>>]
    /\ UNCHANGED <<unitVars, compression, overflow_checks, shards, entries, metadata, store,
                   built, written, pristine>>
    /\ UNCHANGED concVars

Build(fault) ==
    /\ LET b == IndexBuild(store, fault)
       IN  /\ built' = b.index
           /\ last'  = [op |-> "build", key |-> "", meta |-> None,
                        res |-> b.res, calls |-> b.calls]
    /\ UNCHANGED <<unitVars, compression, overflow_checks, shards, entries, metadata, store,
                   written, pristine>>
    /\ UNCHANGED concVars

Next ==
    \/ \E k \in Keys, d \in Datas, m \in {None} \cup {Some(x) : x \in Metas}, f \in Faults :
           Write(k, d, m, f)
    \/ \E k \in Keys, f \in Faults : Read(k, f)
    \/ \E k \in Keys, f \in Faults : Delete(k, f)
    \/ \E k \in Keys : GetMetadata(k)
    \/ \E f \in Faults : Build(f)

Spec == Init /\ [][Next]_vars

(***************************************************************************)
(* Properties of the one-caller specification                              *)
(***************************************************************************)
RECURSIVE Flatten(_)
Flatten(ss) == IF ss = <<>> THEN <<>> ELSE Head(ss) \o Flatten(Tail(ss))

HasCall(calls, fn) == \E i \in 1..Len(calls) : calls[i].fn = fn

\* C1: a read(k) issued after one successful write(k, d) to a key not written
\* before returns exactly d, under None, Gzip and Lz4.
C1_RoundTrip ==
    (/\ last.op = "read"
     /\ compression \in Supported
     /\ Len(written[last.key]) = 1)
    => last.res = Ok(written[last.key][1])

\* C2: after write("a", d1) and write("a", d2) without compression and with
\* room for both in one shard, entries["a"] holds two entries and read("a")
\* returns d1 ++ d2.
C2_WriteOrder ==
    (/\ last.op = "read"
     /\ compression = "None"
     /\ Len(written[last.key]) = 2
     /\ Len(Flatten(written[last.key])) <= shard_size)
    => /\ last.key \in DOMAIN entries
       /\ Len(entries[last.key]) = 2
       /\ last.res = Ok(Flatten(written[last.key]))

\* C4: get_metadata(k) returns the metadata of the most recent successful
\* write(k, _, Some(meta)): it returns that metadata once the write has
\* returned, and goes on returning what it returned until another write of k
\* supplies metadata or k is deleted.
C4_MetadataLastWins ==
    [][\A k \in Keys :
          LET supplied == last'.op = "write" /\ last'.key = k /\ last'.res.kind = "Ok"
                          /\ last'.meta # None
          IN  /\ supplied
                 => BucketGetMetadata(metadata', k) = [kind |-> "Some", val |-> last'.meta[1]]
              /\ (~supplied /\ ~(last'.op = "delete" /\ last'.key = k))
                 => BucketGetMetadata(metadata', k) = BucketGetMetadata(metadata, k)]_vars

\* C5: no shard object ever holds more than shard_size bytes.
C5_CapacityInvariant ==
    \A q \in DOMAIN store : Len(store[q]) <= shard_size

\* C6: under Zstd or Snappy every write returns UnsupportedCompression and
\* issues no provider write, and every read of an indexed key returns
\* UnsupportedCompression.
C6_UnsupportedIsHardError ==
    compression \notin Supported
    => /\ last.op = "write"
          => last.res = Err("UnsupportedCompression") /\ ~HasCall(last.calls, "write")
       /\ (last.op = "read" /\ last.key \in DOMAIN entries)
          => last.res = Err("UnsupportedCompression")

\* C7: the index built over the shards of a bucket populated by successful
\* writes contains every written key and reads back the written bytes.
C7_RebuildEquivalence ==
    (last.op = "build" /\ last.res.kind = "Ok" /\ compression \in Supported)
    => \A k \in Keys :
          written[k] # <<>>
          => /\ k \in DOMAIN built.entries
             /\ BucketRead(built.entries, store, k, compression, 0).res
                  = Ok(Flatten(written[k]))

\* C10: read(k) of a key absent from the index entries fails with KeyNotFound
\* and issues no provider call.
C10_ReadAbsentKey ==
    (last.op = "read" /\ last.key \notin DOMAIN entries)
    => last.res = Err("KeyNotFound") /\ last.calls = <<>>

\* a read of an absent key completed while the backend holds objects and the
\* key had been written successfully
C10_Witness ==
    /\ last.op = "read"
    /\ last.key \notin DOMAIN entries
    /\ DOMAIN store # {}
    /\ written[last.key] # <<>>

(***************************************************************************)
(* The handlers over a populated index.                                    *)
(*                                                                         *)
(* Shard 0 holds LoadedData[0] and shard 1 holds LoadedData[1], each       *)
(* encoded with the bucket's compression (stored raw when the algorithm    *)
(* has no encoder); every index entry points at one of the two shards and  *)
(* carries the digest of that shard's data.  The environment may corrupt   *)
(* one byte of one stored object.                                          *)
(***************************************************************************)
LoadedShards == {0, 1}
LoadedData   == [s \in LoadedShards |-> IF s = 0 THEN <<1, 1, 1, 1>> ELSE <<1, 2>>]

Stored(comp, data) == IF comp \in Supported THEN Compress(comp, data).val ELSE data

LoadedEntry(comp, s) ==
    IndexEntry(s, 0, Len(Stored(comp, LoadedData[s])), compute_checksum(LoadedData[s]))

\* the key "a": one to MaxLoaded entries, the first of them in shard 0
LoadedSeqs == {sa \in UNION {[1..n -> LoadedShards] : n \in 1..MaxLoaded} : sa[1] = 0}

LoadedEntries(comp) ==
    {[k \in {"a"} |-> [i \in DOMAIN sa |-> LoadedEntry(comp, sa[i])]] : sa \in LoadedSeqs}
    \cup
    {[k \in Keys |-> IF k = "a" THEN [i \in DOMAIN sa |-> LoadedEntry(comp, sa[i])]
                     ELSE <<LoadedEntry(comp, 1)>>] : sa \in LoadedSeqs}

\* every indexed key carries metadata
LoadedMetadata(ents) ==
    {[k \in DOMAIN ents |-> IF k = "a" THEN <<5>> ELSE <<6>>]}

LoadedInit ==
    /\ compression \in CompressionTypes
    /\ overflow_checks \in BOOLEAN
    /\ shards   = <<>>
    /\ entries  \in LoadedEntries(compression)
    /\ metadata \in LoadedMetadata(entries)
    /\ store    = [q \in {get_shard_path(s) : s \in LoadedShards}
                     |-> Stored(compression, LoadedData[q[2]])]
    /\ pristine = store
    /\ built    = BucketIndex_default
    /\ last     = NoCall
    /\ written  = [k \in Keys |-> <<>>]
    /\ InitConc
    /\ InitUnit

\* bytes a corrupted position may take (3: another value of the gzip OS byte)
TamperVals == {3}

\* the environment overwrites one byte of one object of the untouched backend
Tamper(q, i, v) ==
    /\ store = pristine
    /\ q \in DOMAIN store
    /\ i \in 1..Len(store[q])
    /\ store[q][i] # v
    /\ store' = [store EXCEPT ![q] = [@ EXCEPT ![i] = v]]
    /\ last'  = [op |-> "tamper", key |-> "", meta |-> None, res |-> Ok(<<>>), calls |-> <<>>]
    /\ UNCHANGED <<unitVars, compression, overflow_checks, shards, entries, metadata, built,
                   written, pristine>>
    /\ UNCHANGED concVars

LoadedWrites == {<<1, 2>>}

NextLoaded ==
    \/ \E k \in {"a"}, d \in LoadedWrites, m \in {Some(<<5>>)}, f \in Faults :
           Write(k, d, m, f)
    \/ \E k \in Keys, f \in Faults : Read(k, f)
    \/ \E k \in Keys, f \in Faults : Delete(k, f)
    \/ \E k \in Keys : GetMetadata(k)
    \/ \E q \in DOMAIN store, i \in 1..(shard_size + 4), v \in TamperVals : Tamper(q, i, v)

SpecLoaded == LoadedInit /\ [][NextLoaded]_vars

(***************************************************************************)
(* Properties of the handlers over a populated index                       *)
(***************************************************************************)
ReadsAsDeleted(k) ==
    /\ BucketRead(entries, store, k, compression, 0).res = Err("KeyNotFound")
    /\ BucketGetMetadata(metadata, k).kind = "None"

IsWriteOf(k) == last.op = "write" /\ last.key = k

IsDeleteOf(k) == last.op = "delete" /\ last.key = k

Original(k) == Flatten([i \in DOMAIN entries[k] |-> entries[k][i].checksum[2]])

Changed(k) ==
    \E i \in DOMAIN entries[k] :
        LET q == get_shard_path(entries[k][i].shard_id)
        IN  q \in DOMAIN store /\ q \in DOMAIN pristine /\ store[q] # pristine[q]

CanWrite_over_readers(l) == l.writer = 0

\* self.index.write().await (bucket.rs 94, 174)
CanWrite(l) == l.writer = 0 /\ l.readers = {}

\* shared access granted while a writer holds the lock
CanRead_during_write(l) == TRUE

\* self.index.read().await (bucket.rs 150, 188)
CanRead(l) == l.writer = 0

Release(l, t) == [writer |-> IF l.writer = t THEN 0 ELSE l.writer, readers |-> l.readers \ {t}]

\* the handler returns res to its caller and its guard is dropped; the
\* history of completed calls is kept by the one-caller specifications only
Return(t, res) ==
    /\ pc'   = [pc EXCEPT ![t] = "idle"]
    /\ loc'  = [loc EXCEPT ![t] = LocIdle]
    /\ lock' = Release(lock, t)
    /\ last' = last

Invoke(t, op, key, data, meta) ==
    /\ pc[t] = "idle"
    /\ op = "write" => Len(shards) < MaxShards /\ SumLen(written, Keys) < MaxWrites
    /\ pc'  = [pc EXCEPT ![t] = "lock"]
    /\ loc' = [loc EXCEPT ![t] = [LocIdle EXCEPT !.op = op, !.key = key,
                                                 !.data = data, !.meta = meta]]
    /\ UNCHANGED <<seqVars, lock>>

\* bucket.rs 94-107
w_acquire(t) ==
    /\ pc[t] = "lock" /\ loc[t].op = "write"
    /\ CanWrite(lock)
    /\ LET b == WriteBegin(shards)
       IN  /\ shards' = b.shards
           /\ IF b.panic
              THEN Return(t, Err("Panic"))
              ELSE /\ lock' = [lock EXCEPT !.writer = t]
                   /\ pc'   = [pc EXCEPT ![t] = "w_read"]
                   /\ loc'  = [loc EXCEPT ![t].path = b.last_shard_path,
                                          ![t].idx  = b.last_shard_idx,
                                          ![t].cur  = b.current_shards]
                   /\ last' = last
    /\ UNCHANGED <<unitVars, compression, overflow_checks, entries, metadata, store, built,
                   written, pristine>>

\* bucket.rs 107-141
w_read(t, fail) ==
    /\ pc[t] = "w_read"
    /\ LET file == provider_read(store, loc[t].path, fail)
           p == WritePlan(shards, loc[t].cur, loc[t].idx, file.val, loc[t].data, compression)
       IN  IF IsErr(file) THEN shards' = shards /\ Return(t, file)
           ELSE /\ shards' = p.shards
                /\ IF IsErr(p.res) THEN Return(t, p.res)
                   ELSE /\ pc'  = [pc EXCEPT ![t] = "w_write"]
                        /\ loc' = [loc EXCEPT ![t].buf = p.bytes]
                        /\ UNCHANGED <<lock, last>>
    /\ UNCHANGED <<unitVars, compression, overflow_checks, entries, metadata, store, built,
                   written, pristine>>

\* bucket.rs 141-147
w_write(t, fail) ==
    /\ pc[t] = "w_write"
    /\ LET w == provider_write(store, loc[t].path, loc[t].buf, fail)
       IN  /\ store' = w.store
           /\ Return(t, w.res)
           /\ written' = IF IsErr(w.res) THEN written
                         ELSE [written EXCEPT ![loc[t].key] = Append(@, loc[t].data)]
    /\ UNCHANGED <<unitVars, compression, overflow_checks, shards, entries, metadata, built, pristine>>

\* bucket.rs 150-157
r_acquire(t) ==
    /\ pc[t] = "lock" /\ loc[t].op = "read"
    /\ CanRead(lock)
    /\ LET found == ReadLookup(entries, loc[t].key)
       IN  IF IsErr(found) THEN Return(t, found)
           ELSE IF found.val = <<>> THEN Return(t, Ok(<<>>))
           ELSE /\ lock' = [lock EXCEPT !.readers = @ \cup {t}]
                /\ pc'   = [pc EXCEPT ![t] = "r_fetch"]
                /\ loc'  = [loc EXCEPT ![t].es = found.val, ![t].i = 1]
                /\ last' = last
    /\ UNCHANGED <<unitVars, compression, overflow_checks, shards, entries, metadata, store, built,
                   written, pristine>>

\* bucket.rs 157-170
r_fetch(t, fail) ==
    /\ pc[t] = "r_fetch"
    /\ LET r == ReadEntry(store, compression, loc[t].es[loc[t].i], fail)
       IN  IF IsErr(r) THEN Return(t, r)
           ELSE IF loc[t].i = Len(loc[t].es) THEN Return(t, Ok(loc[t].buf \o r.val))
           ELSE /\ loc' = [loc EXCEPT ![t].buf = @ \o r.val, ![t].i = @ + 1]
                /\ UNCHANGED <<pc, lock, last>>
    /\ UNCHANGED <<unitVars, compression, overflow_checks, shards, entries, metadata, store, built,
                   written, pristine>>

\* bucket.rs 174-179 (and 183-184 when the key has no entries)
d_acquire(t) ==
    /\ pc[t] = "lock" /\ loc[t].op = "delete"
    /\ CanWrite(lock)
    /\ LET key == loc[t].key
           removed == IF key \in DOMAIN entries THEN entries[key] ELSE <<>>
       IN  /\ entries' = MapRemove(entries, key)
           /\ written'  = [written EXCEPT ![key] = <<>>]
           /\ IF removed = <<>>
              THEN metadata' = DeleteFinish(metadata, key) /\ Return(t, Ok(<<>>))
              ELSE /\ metadata' = metadata
                   /\ lock' = [lock EXCEPT !.writer = t]
                   /\ pc'   = [pc EXCEPT ![t] = "d_del"]
                   /\ loc'  = [loc EXCEPT ![t].es = removed, ![t].i = 1]
                   /\ last' = last
    /\ UNCHANGED <<unitVars, compression, overflow_checks, shards, store, built, pristine>>

\* bucket.rs 179-184
d_del(t, fail) ==
    /\ pc[t] = "d_del"
    /\ LET d == provider_delete(store, get_shard_path(loc[t].es[loc[t].i].shard_id), fail)
       IN  /\ store' = d.store
           /\ IF IsErr(d.res) THEN metadata' = metadata /\ Return(t, d.res)
              ELSE IF loc[t].i = Len(loc[t].es)
                   THEN metadata' = DeleteFinish(metadata, loc[t].key) /\ Return(t, Ok(<<>>))
              ELSE /\ metadata' = metadata
                   /\ loc' = [loc EXCEPT ![t].i = @ + 1]
                   /\ UNCHANGED <<pc, lock, last>>
    /\ UNCHANGED <<unitVars, compression, overflow_checks, shards, entries, built,
                   written, pristine>>

\* bucket.rs 188-189
g_acquire(t) ==
    /\ pc[t] = "lock" /\ loc[t].op = "get_metadata"
    /\ CanRead(lock)
    /\ Return(t, BucketGetMetadata(metadata, loc[t].key))
    /\ UNCHANGED seqVarsButLast

ConcOps == {"write", "read", "delete", "get_metadata"}

NextConc ==
    \/ \E t \in Tasks, op \in ConcOps, k \in Keys :
           Invoke(t, op, k, IF op = "write" THEN <<1, 2>> ELSE <<>>, None)
    \/ \E t \in Tasks : w_acquire(t)
    \/ \E t \in Tasks, fail \in BOOLEAN : w_read(t, fail)
    \/ \E t \in Tasks, fail \in BOOLEAN : w_write(t, fail)
    \/ \E t \in Tasks : r_acquire(t)
    \/ \E t \in Tasks, fail \in BOOLEAN : r_fetch(t, fail)
    \/ \E t \in Tasks : d_acquire(t)
    \/ \E t \in Tasks, fail \in BOOLEAN : d_del(t, fail)
    \/ \E t \in Tasks : g_acquire(t)

\* the populated bucket, with one supported and one unsupported algorithm and
\* metadata for every indexed key
ConcInit ==
    /\ LoadedInit
    /\ compression \in {"None", "Zstd"}
    /\ DOMAIN metadata = DOMAIN entries

SpecConc == ConcInit /\ [][NextConc]_vars

(***************************************************************************)
(* Properties of the two-task specification                                *)
(***************************************************************************)
InWriteSection(t) == pc[t] \in {"w_read", "w_write", "d_del"}

Mutex ==
    /\ lock.writer # 0 => lock.readers = {}
    /\ \A t \in Tasks : InWriteSection(t) => lock.writer = t
    /\ \A t \in Tasks : pc[t] = "r_fetch" => t \in lock.readers /\ lock.writer = 0

\* the entry list a read iterates over is the list the index holds now
ReaderViewStable ==
    \A t \in Tasks :
        pc[t] = "r_fetch"
        => loc[t].key \in DOMAIN entries /\ entries[loc[t].key] = loc[t].es

IsPrefix(s1, s2) == Len(s1) <= Len(s2) /\ SubSeq(s2, 1, Len(s1)) = s1

\* an entry list that stays in the index only grows, by whole entries
EntriesGrow ==
    \A k \in DOMAIN entries :
        k \in DOMAIN entries' => IsPrefix(entries[k], entries'[k])

\* C9: writes and deletes hold the index exclusively from lock acquisition to
\* return, no read holds it meanwhile, the entry list a read iterates over is
\* never changed under it, and a list that stays in the index changes only by
\* whole entries appended.
C9_IndexAtomicity ==
    [][(Mutex /\ ReaderViewStable)' /\ EntriesGrow]_vars

\* one task is between the two provider calls of Bucket::write, or in the
\* provider.read of a Bucket::read, while the other waits for the lock with a
\* write of the same key
C9_Witness ==
    \E t \in Tasks, u \in Tasks :
        /\ t # u
        /\ pc[t] \in {"w_write", "r_fetch"}
        /\ pc[u] = "lock" /\ loc[u].op = "write"
        /\ loc[u].key = loc[t].key

(***************************************************************************)
(* ShardWriter on its own: one writer, created by ShardWriter::new over an *)
(* empty backend, receiving write calls.                                   *)
(***************************************************************************)
WriterInit ==
    /\ Init
    /\ compression = "None"
    /\ overflow_checks = FALSE
    /\ DOMAIN store = {}

SwWrite(key, data, meta, fault) ==
    /\ LET r == ShardWriterWrite(writer, store, data, meta, fault)
       IN  /\ writer' = r.writer
           /\ store'  = r.store
           /\ last'   = [op |-> "sw_write", key |-> key, meta |-> meta, data |-> data,
                         res |-> r.res, calls |-> r.calls]
    /\ UNCHANGED <<compression, overflow_checks, shards, entries, metadata, built,
                   written, pristine, bld>>
    /\ UNCHANGED concVars

NextWriter ==
    \E k \in Keys, d \in Datas, m \in {None} \cup {Some(x) : x \in Metas}, f \in Faults :
        SwWrite(k, d, m, f)

SpecWriter == WriterInit /\ [][NextWriter]_vars

\* length of the record of the call that has just returned
RecordLen(l) == Len(l.data) + (IF l.meta # None THEN Len(l.meta[1]) ELSE 0)

RECURSIVE SumSizes(_)
SumSizes(es) == IF es = <<>> THEN 0 ELSE Head(es).size + SumSizes(Tail(es))

\* C11: ShardWriter.write fails with the shard-capacity error exactly when
\* current_size + len(data) + len(metadata) > shard_size; a rejected write
\* issues no provider write and leaves current_size and the entries unchanged.
C11_CapacityCheck ==
    [][last'.op = "sw_write"
       => LET rejected == last'.res = Err("ShardSizeLimitExceeded")
          IN  /\ rejected <=> (writer.current_size + RecordLen(last') > shard_size)
              /\ rejected => /\ last'.calls = <<>>
                              /\ store' = store
                              /\ writer' = writer]_vars

\* a record that exactly fills the shard was accepted, and the next one refused
C11_Witness ==
    /\ last.op = "sw_write"
    /\ last.res = Err("ShardSizeLimitExceeded")
    /\ writer.current_size = shard_size
    /\ Len(writer.entries) >= 1

Contiguous(es) ==
    /\ es # <<>> => es[1].offset = 0
    /\ \A i \in 1..(Len(es) - 1) : es[i + 1].offset = es[i].offset + es[i].size

\* C12: every successful ShardWriter.write appends exactly one entry whose
\* offset is current_size before the write and whose size is len(data) +
\* len(metadata); entries are contiguous from offset 0 and current_size is the
\* sum of the entry sizes; a failed write appends nothing.
C12_EntriesContiguous ==
    [][last'.op = "sw_write"
       => /\ last'.res.kind = "Ok"
             => /\ Len(writer'.entries) = Len(writer.entries) + 1
                /\ SubSeq(writer'.entries, 1, Len(writer.entries)) = writer.entries
                /\ writer'.entries[Len(writer'.entries)].offset = writer.current_size
                /\ writer'.entries[Len(writer'.entries)].size = RecordLen(last')
          /\ last'.res.kind # "Ok" => writer'.entries = writer.entries
          /\ Contiguous(writer'.entries)
          /\ writer'.current_size = SumSizes(writer'.entries)]_vars

\* two records recorded, the second one with metadata
C12_Witness ==
    /\ last.op = "sw_write"
    /\ last.res.kind = "Ok"
    /\ last.meta # None
    /\ Len(writer.entries) = 2

\* C13: a failed provider write of a record makes the call return the error
\* without appending an entry or changing current_size, an entry is appended
\* only by a call whose provider writes all succeeded, and every byte
\* persisted at the shard's path is covered by a recorded entry.
C13_NeverPartiallyIndexed ==
    [][last'.op = "sw_write"
       => /\ IsErr(last'.res) => writer' = writer
          /\ writer'.entries # writer.entries => last'.res.kind = "Ok"
          /\ writer_path \in DOMAIN store'
             => Len(store'[writer_path]) <= writer'.current_size]_vars

(***************************************************************************)
(* BucketIndex::build step by step (index/bucket.rs 85-117): one step per  *)
(* await point of the futures that buffer_unordered drives.                *)
(***************************************************************************)
MaxPar   == 2            \* parallelism ranges over 0..MaxPar (0: BucketConfig::default)
MaxFiles == 3            \* shard objects in the bucket's directory

BuildStores ==
    {[q \in {get_shard_path(i) : i \in 0..(n - 1)} |-> <<1>>] : n \in 0..MaxFiles}

BuildInit ==
    /\ compression = "None"
    /\ overflow_checks = FALSE
    /\ shards   = <<>>
    /\ entries  = BucketIndex_default.entries
    /\ metadata = BucketIndex_default.metadata
    /\ store \in BuildStores
    /\ pristine = store
    /\ built    = BucketIndex_default
    /\ last     = NoCall
    /\ written  = [k \in Keys |-> <<>>]
    /\ InitConc
    /\ InitUnit

\* futures pulled from the stream and not yet completed
InFlight(b) == {f \in b.files : b.fut[f] \in {"read", "lock", "merge"}}

\* the stream is drained without regard to the futures in progress
can_spawn_unbounded(b) == TRUE

\* buffer_unordered(parallelism), line 106
can_spawn(b) == Cardinality(InFlight(b)) < b.parallelism

\* index.lock().await, line 100
can_lock(b) == b.mutex = None

\* the failed outputs dropped from the collected Vec
collect_results_skipping_errors(out) == Ok(<<>>)

\* lines 107-110: Vec<Result<()>> into Result<Vec<()>>, the first error wins
collect_results(out) ==
    IF \E i \in 1..Len(out) : IsErr(out[i])
    THEN out[CHOOSE i \in 1..Len(out) :
                 IsErr(out[i]) /\ \A j \in 1..(i - 1) : ~IsErr(out[j])]
    ELSE Ok(<<>>)

BuildReturn(res, index) ==
    /\ built' = IF IsErr(res) THEN BucketIndex_default ELSE index
    /\ last'  = [op |-> "build", key |-> "", meta |-> None, res |-> res, calls |-> <<>>]

BuildFrame ==
    /\ UNCHANGED <<compression, overflow_checks, shards, entries, metadata, store,
                   written, pristine, writer>>
    /\ UNCHANGED concVars

\* lines 85-90
b_start(par) ==
    /\ bld.pc = "idle"
    /\ bld' = [BldIdle EXCEPT !.pc = "list", !.parallelism = par]
    /\ UNCHANGED <<built, last>>
    /\ BuildFrame

\* line 91
b_list(fail) ==
    /\ bld.pc = "list"
    /\ LET l == provider_list(store, name, fail)
       IN  IF IsErr(l.res)
           THEN /\ bld' = [bld EXCEPT !.pc = "idle", !.list = l.res]
                /\ BuildReturn(l.res, bld.index)
           ELSE /\ bld' = [bld EXCEPT !.pc = "stream", !.list = l.res, !.files = l.files,
                                      !.fut    = [f \in l.files |-> "new"],
                                      !.data   = [f \in l.files |-> <<>>],
                                      !.reads  = [f \in l.files |-> 0],
                                      !.merges = [f \in l.files |-> 0]]
                /\ UNCHANGED <<built, last>>
    /\ BuildFrame

\* lines 93-99 and 106: the next file is pulled from the stream and its
\* future polled up to provider.read
b_spawn(f) ==
    /\ bld.pc = "stream"
    /\ f \in bld.files /\ bld.fut[f] = "new"
    /\ can_spawn(bld)
    /\ bld' = [bld EXCEPT !.fut[f] = "read", !.reads[f] = @ + 1]
    /\ UNCHANGED <<built, last>>
    /\ BuildFrame

\* line 99
b_read(f, fail) ==
    /\ bld.pc = "stream"
    /\ f \in bld.files /\ bld.fut[f] = "read"
    /\ LET data == provider_read(store, f, fail)
       IN  bld' = IF IsErr(data)
                  THEN [bld EXCEPT !.fut[f] = "done", !.out = Append(@, data)]
                  ELSE [bld EXCEPT !.fut[f] = "lock", !.data[f] = data.val]
    /\ UNCHANGED <<built, last>>
    /\ BuildFrame

\* line 100
b_lock(f) ==
    /\ bld.pc = "stream"
    /\ f \in bld.files /\ bld.fut[f] = "lock"
    /\ can_lock(bld)
    /\ bld' = [bld EXCEPT !.fut[f] = "merge", !.mutex = Some(f)]
    /\ UNCHANGED <<built, last>>
    /\ BuildFrame

\* lines 102-104: process_shard under the guard, dropped at the end of the block
b_process(f) ==
    /\ bld.pc = "stream"
    /\ f \in bld.files /\ bld.fut[f] = "merge"
    /\ LET p == process_shard(bld.index, bld.data[f])
       IN  bld' = [bld EXCEPT !.fut[f] = "done", !.mutex = None,
                              !.index = p.index, !.merges[f] = @ + 1,
                              !.out = Append(@, p.res)]
    /\ UNCHANGED <<built, last>>
    /\ BuildFrame

\* lines 106-116: the buffered stream ends once the stream of files has been
\* polled to its end, which it is only while fewer than parallelism futures
\* are in progress, and every future has completed
b_collect ==
    /\ bld.pc = "stream"
    /\ \A f \in bld.files : bld.fut[f] = "done"
    /\ can_spawn(bld)
    /\ bld' = [bld EXCEPT !.pc = "idle"]
    /\ BuildReturn(collect_results(bld.out), bld.index)
    /\ BuildFrame

NextBuild ==
    \/ \E par \in 0..MaxPar : b_start(par)
    \/ \E fail \in BOOLEAN : b_list(fail)
    \/ \E f \in DOMAIN store : b_spawn(f)
    \/ \E f \in DOMAIN store, fail \in BOOLEAN : b_read(f, fail)
    \/ \E f \in DOMAIN store : b_lock(f)
    \/ \E f \in DOMAIN store : b_process(f)
    \/ b_collect

SpecBuild == BuildInit /\ [][NextBuild]_vars

\* every provider call eventually returns and the executor keeps polling the
\* task: a step of the build that can be taken is eventually taken
SpecBuildFair == SpecBuild /\ WF_vars(NextBuild)

Failed(b) == IsErr(b.list) \/ \E i \in 1..Len(b.out) : IsErr(b.out[i])

\* C14: a build in which the list call or the read or processing of any
\* shard failed returns an error and no index; a build that returns Ok has
\* fetched and processed every listed shard exactly once.
C14_BuildAllOrNothing ==
    (last.op = "build" /\ bld.pc = "idle")
    => /\ Failed(bld) => IsErr(last.res) /\ built = BucketIndex_default
       /\ last.res.kind = "Ok"
          => /\ bld.files = {q \in DOMAIN store : q[1] = name}
             /\ \A f \in bld.files : bld.reads[f] = 1 /\ bld.merges[f] = 1

\* a build returned after one shard failed and another was processed
C14_Witness ==
    /\ last.op = "build" /\ bld.pc = "idle"
    /\ \E i, j \in 1..Len(bld.out) : IsErr(bld.out[i]) /\ ~IsErr(bld.out[j])

Merging(b) == {f \in b.files : b.fut[f] = "merge"}

\* C15: at every point of a build at most parallelism shard fetches are in
\* flight (read started, not yet merged), at most one future is merging into
\* the accumulator, and with parallelism = 1 at most one shard is between
\* the start of its fetch and the end of its merge.
C15_BoundedParallelism ==
    /\ Cardinality(InFlight(bld)) <= bld.parallelism
    /\ Cardinality(Merging(bld)) <= 1
    /\ Merging(bld) # {} <=> bld.mutex # None
    /\ bld.parallelism = 1 => Cardinality(InFlight(bld)) <= 1

\* the bound is reached with a shard still waiting in the stream, one future
\* merging and another waiting for the guard
C15_Witness ==
    /\ Cardinality(InFlight(bld)) = bld.parallelism
    /\ bld.parallelism >= 2
    /\ \E f \in bld.files : bld.fut[f] = "new"
    /\ \E f, g \in bld.files : bld.fut[f] = "merge" /\ bld.fut[g] = "lock"

(***************************************************************************)
(* Shard allocation and placement by Bucket::write (Spec), and the frame   *)
(* of Bucket::delete (SpecLoaded)                                          *)
(***************************************************************************)
\* C16: a Bucket.write of a record larger than shard_size does not succeed
\* (it fails with the capacity error instead of rolling to a new shard).
C16_OversizedRecordRejected ==
    \A k \in Keys : \A i \in 1..Len(written[k]) : Len(written[k][i]) <= shard_size

\* C17: the first write on a fresh bucket (no shard in the list, no object in
\* the backend) allocates shard 0 and works on it: it does not abort, it
\* reaches the provider, every provider call it makes addresses shard 0, and
\* when it returns Ok the list holds exactly shard 0 and its object exists.
C17_FirstWriteAllocatesShard0 ==
    [][(/\ shards = <<>>
        /\ DOMAIN store = {}
        /\ compression \in Supported
        /\ last'.op = "write"
        /\ last'.res.kind # "ShardSizeLimitExceeded")
       => /\ last'.res.kind # "Panic"
          /\ last'.calls # <<>>
          /\ \A i \in 1..Len(last'.calls) : last'.calls[i].path = get_shard_path(0)
          /\ last'.res.kind = "Ok"
             => Len(shards') = 1 /\ get_shard_path(0) \in DOMAIN store']_vars

\* C18: after a successful write the encoded bytes are the object of the
\* shard the write recorded, which is the last shard of the list once the
\* write has returned; a write that rolled to a new shard leaves the object of
\* the shard it sealed as it was.
C18_BytesInRecordedShard ==
    [][(last'.op = "write" /\ last'.res.kind = "Ok" /\ written' # written)
       => LET data   == written'[last'.key][Len(written'[last'.key])]
              active == get_shard_path(Len(shards') - 1)
              sealed == get_shard_path(Len(shards) - 1)
          IN  /\ active \in DOMAIN store'
              /\ store'[active] = Stored(compression, data)
              /\ (Len(shards) >= 1 /\ Len(shards') > Len(shards)
                     /\ sealed \in DOMAIN store)
                 => sealed \in DOMAIN store' /\ store'[sealed] = store[sealed]]_vars

\* C19: a write allocates at most one shard, a new shard takes the position
\* (id) given by the length of the list before its allocation, and no write
\* uses a shard id beyond the last position of the list.
C19_ShardIdsMonotonic ==
    [][last'.op = "write"
       => /\ Len(shards') <= Len(shards) + 1
          /\ SubSeq(shards', 1, Len(shards)) = shards
          /\ \A i \in 1..Len(last'.calls) :
                 last'.calls[i].path[2] <= Len(shards') - 1]_vars

C22_OneWriterPerShard ==
    \A t \in Tasks :
        InWriteSection(t)
        => /\ lock.writer = t
           /\ lock.readers = {}
           /\ \A u \in Tasks \ {t} : ~InWriteSection(u) /\ pc[u] # "r_fetch"

\* a delete is between its provider calls while the other task waits for the
\* lock with a write or a read
C22_Witness ==
    \E t \in Tasks, u \in Tasks :
        /\ t # u
        /\ pc[t] = "d_del"
        /\ pc[u] = "lock" /\ loc[u].op \in {"write", "read"}

\* C23: read and get_metadata, successful or not, leave the index entries,
\* the index metadata, the shard list and the backend objects as they were
\* and issue no provider write or delete.
C23_ReadsChangeNothing ==
    [][last'.op \in {"read", "get_metadata"}
       => /\ entries' = entries
          /\ metadata' = metadata
          /\ shards' = shards
          /\ store' = store
          /\ ~HasCall(last'.calls, "write")
          /\ ~HasCall(last'.calls, "delete")]_vars

\* a read has just failed on the digest of a changed object
C23_Witness ==
    /\ last.op = "read"
    /\ last.res.kind = "ChecksumMismatch"
    /\ store # pristine

(***************************************************************************)
(* The entries recorded by ShardWriter::write (SpecWriter)                 *)
(***************************************************************************)
\* C24: the size of the entry recorded by a ShardWriter.write of data d and
\* metadata m is len(d), the metadata block excluded.
C24_SizeExcludesMetadata ==
    [][(last'.op = "sw_write" /\ last'.res.kind = "Ok")
       => writer'.entries[Len(writer'.entries)].size = Len(last'.data)]_vars

\* C25: all the entries recorded by one ShardWriter carry the same shard_id,
\* however many records the shard already holds.
C25_OneShardIdPerWriter ==
    \A i, j \in 1..Len(writer.entries) :
        writer.entries[i].shard_id = writer.entries[j].shard_id

(***************************************************************************)
(* Termination of BucketIndex::build (SpecBuildFair)                       *)
(***************************************************************************)
\* C26: a build that has started returns, whatever the parallelism (that of
\* BucketConfig::default included) and the listing, and a build whose shards
\* were all processed returns Ok.
C26_BuildTerminates ==
    /\ (bld.pc # "idle") ~> (bld.pc = "idle")
    /\ []((last.op = "build" /\ bld.pc = "idle" /\ ~Failed(bld)) => last.res.kind = "Ok")

(***************************************************************************)
(* Failures of Bucket::write and Bucket::delete, and the capacity          *)
(* subtraction of Bucket::write                                            *)
(***************************************************************************)
NoRetry(calls) ==
    \A i, j \in 1..Len(calls) : calls[i] = calls[j] => i = j

\* C27: a Bucket.write that returns an error leaves the shard list, the index
\* entries and the index metadata as they were, and has attempted each
\* provider call at most once.
C27_WriteFailureAtomic ==
    [][(last'.op = "write" /\ last'.res.kind \notin {"Ok", "Panic"})
       => /\ shards' = shards
          /\ entries' = entries
          /\ metadata' = metadata
          /\ NoRetry(last'.calls)]_vars

Subtracted(l) ==
    /\ l.op = "write"
    /\ l.calls # <<>>
    /\ ~(l.res = Err("Io") /\ Len(l.calls) = 1)

\* C29: whenever a write evaluates shard_size - current_size, the object of
\* the active shard it has read is at most shard_size long.
C29_NoUnderflow ==
    [][Subtracted(last')
       => Len(store[last'.calls[1].path]) <= shard_size]_vars
====
